---- MODULE Spec2Model ----
(***************************************************************************)
(* cargo-depcheck: the dependency graph built from the package records of  *)
(* a lock file (dep_tree.rs), the multi-version index, the upward closure  *)
(* walk (multi_ver_parents.rs) and the blame / path-summary walk           *)
(* (results.rs).                                                           *)
(***************************************************************************)
EXTENDS Integers, Sequences, FiniteSets, TLC

\* ---------------------------------------------------------------- bounds
NumNames == 2
NumVers == 2
MaxRecords == 2
MaxDeps == 2

Names == 1..NumNames
Versions == 1..NumVers

\* Package { name, version } (dep_tree.rs): the pair <<name, version>>.
Package == Names \X Versions

\* None of Option<Package>
NoPkg == <<0, 0>>

VARIABLES
    deps,            \* Deps.deps: Package -> DepVersion, for the nodes that exist
    records,         \* the package records read so far: <<package, has_source>>
    loaded,          \* number of package records processed by from_lock_file
    pc,              \* position of the program
    dep_mode,        \* cli.dependents.is_some()
    blame_mode,      \* cli.blame.is_some()
    multi_ver_deps,  \* the multi-version index: name -> versions
    parents,         \* MultiVerParents.parents: Package -> (name -> versions)
    todo,            \* the (name, version) roots the current loop has yet to walk
    root,            \* pkg of the walk in progress, NoPkg between walks
    stack,           \* the activations of next() in progress, innermost last
    top_level_blame, \* MultiVerDepResults.top_level_blame, in map order
    dep_blame,       \* MultiVerDepResults.dep_blame, in map order
    dt_parents,      \* per duplicated (name, version): its DirectDependents
    err,             \* the Err the program returned, NoErr if none
    lock_version,    \* lock_file.version, the ResolveVersion of the input
    ret,             \* the argument and the result of a call of get_version
    visits           \* package |-> activations of next() for it in the latest walk

graph == <<deps, records, loaded>>
modes == <<dep_mode, blame_mode>>
walk == <<todo, root, stack, visits>>
results == <<top_level_blame, dep_blame, dt_parents>>
calls == <<lock_version, ret>>
vars == <<deps, records, loaded, pc, dep_mode, blame_mode, multi_ver_deps,
          parents, todo, root, stack, top_level_blame, dep_blame, dt_parents, err,
          lock_version, ret, visits>>

\* ------------------------------------------------------------ dep_tree.rs

\* DepVersion::new: no dependencies, no dependents, the given top_level flag.
DepVersionNew(top_level) ==
    [dependencies |-> {}, dependents |-> <<>>, top_level |-> top_level]

\* IndexSet::insert on the dependents: appended unless already present.
SeqInsert(s, x) ==
    IF \E i \in 1..Len(s) : s[i] = x THEN s ELSE Append(s, x)

SeqToSet(s) == {s[i] : i \in 1..Len(s)}

\* DepVersion::add_dependencies: the dependencies are REPLACED by the list.
AddDependencies(node, ds) ==
    [node EXCEPT !.dependencies = ds]

\* DepVersion::add_dependent
AddDependent(node, dependent) ==
    [node EXCEPT !.dependents = SeqInsert(@, dependent)]

\* Extend or overwrite the map at one key.
Put(f, k, v) ==
    [x \in DOMAIN f \cup {k} |-> IF x = k THEN v ELSE f[x]]

\* Dep::add_modify_ver_dependencies (with the Deps entry lookup around it):
\* an existing node keeps its top_level flag, a new node gets the record's.
AddModifyVerDependencies(g, pkg, top_level, ds) ==
    IF pkg \in DOMAIN g
    THEN Put(g, pkg, AddDependencies(g[pkg], ds))
    ELSE Put(g, pkg, AddDependencies(DepVersionNew(top_level), ds))

\* Dep::add_modify_ver_dependent: an existing node keeps its top_level flag,
\* a new node gets top_level = dependency.source.is_none().
AddModifyVerDependent(g, dep, top_level, dependent) ==
    IF dep \in DOMAIN g
    THEN Put(g, dep, AddDependent(g[dep], dependent))
    ELSE Put(g, dep, AddDependent(DepVersionNew(top_level), dependent))

\* The "Add all dependents" loop of from_lock_file over the record's
\* dependencies; dsrc[d] is whether the reference d carries a source.
RECURSIVE AddAllDependents(_, _, _, _)
AddAllDependents(g, pkg, rest, dsrc) ==
    IF rest = {} THEN g
    ELSE LET d == CHOOSE x \in rest : TRUE
         IN AddAllDependents(AddModifyVerDependent(g, d, ~dsrc[d], pkg),
                             pkg, rest \ {d}, dsrc)

\* One iteration of the package loop of from_lock_file.
FromLockFileStep(g, pkg, src, dsrc) ==
    AddAllDependents(AddModifyVerDependencies(g, pkg, ~src, DOMAIN dsrc),
                     pkg, DOMAIN dsrc, dsrc)

\* The dependency lists the record of pkg may carry: at most MaxDeps distinct
\* references to other packages, each with or without a source.
DepLists(pkg) ==
    UNION {[D -> BOOLEAN] :
              D \in {S \in SUBSET (Package \ {pkg}) : Cardinality(S) <= MaxDeps}}

\* Mutant of IsTopLevel: the "no dependents" half is forgotten.
IsTopLevelFlagOnly(g, p) == g[p].top_level

\* DepVersion::is_top_level
IsTopLevel(g, p) == g[p].top_level \/ g[p].dependents = <<>>

\* Deps::get_version: Ok when the node exists, Err(CorruptedGraph) otherwise.
GetVersionOk(g, pkg) == pkg \in DOMAIN g

\* The values of the ResolveVersion enum of the cargo_lock crate.
ResolveVersions == {"V1", "V2", "V3"}

\* Mutant of Supported: the check of the lock file version is dropped.
SupportedAlways(version) == version \in ResolveVersions

\* from_lock_file: lock_file.version != ResolveVersion::V3 is an error.
Supported(version) == version = "V3"

\* No Err was returned.
NoErr == [kind |-> "none", name |-> 0, version |-> 0]

\* Err("Only v3 lock files are supported")
UnsupportedInputVersion == [kind |-> "version", name |-> 0, version |-> 0]

\* The Err of get_version with the name and the version its message holds,
\* 0 for the one it does not hold.
CorruptedGraph(name, version) ==
    [kind |-> "corrupted", name |-> name, version |-> version]

\* The Err of Deps::get_version: "Dependency '{name}' not found" when
\* deps.get(&pkg.name) is None, "Version '{version}' of '{name}' not found"
\* when the name is known and dep.versions.get(&pkg.version) is None.
GetVersionErr(g, pkg) ==
    IF pkg[1] \notin {p[1] : p \in DOMAIN g}
    THEN CorruptedGraph(pkg[1], 0)
    ELSE CorruptedGraph(pkg[1], pkg[2])

\* Deps::get_version as a Result: Ok(&DepVersion) or Err(message).
GetVersion(g, pkg) ==
    IF GetVersionOk(g, pkg)
    THEN [ok |-> TRUE, ver |-> g[pkg]]
    ELSE [ok |-> FALSE, err |-> GetVersionErr(g, pkg)]

\* No call of get_version was made.
NoCall == [pkg |-> NoPkg, res |-> [ok |-> FALSE, err |-> NoErr]]

\* Mutant of Propagate: the Err of get_version is dropped and the caller
\* carries on with its loop.
PropagateNever(g, pkg, here) == here

\* The ? on get_version in next(): the position of the program after the
\* lookup of pkg, the loop it is in or the return of the Err.
Propagate(g, pkg, here) == IF GetVersionOk(g, pkg) THEN here ELSE "error"

\* Dep::versions: every version node held for the name.
DepVersions(g, name) == {p[2] : p \in {q \in DOMAIN g : q[1] = name}}

\* Mutant of HasMultipleVersions: off by one, a single version counts.
HasSomeVersion(g, name) == Cardinality(DepVersions(g, name)) > 0

\* Dep::has_multiple_versions
HasMultipleVersions(g, name) == Cardinality(DepVersions(g, name)) > 1

\* The multi-version index (build_dup_dep_results, the filter_map over
\* deps.values()): name -> versions for the names with several versions.
MultiVerIndex(g) ==
    [name \in {n \in {p[1] : p \in DOMAIN g} : HasMultipleVersions(g, n)}
        |-> DepVersions(g, name)]

\* The (name, version) pairs the two build loops iterate over.
Roots(idx) == {p \in Package : p[1] \in DOMAIN idx /\ p[2] \in idx[p[1]]}

\* ---------------------------------------------------- multi_ver_parents.rs

\* Mutant of MultiVerDepsAdd: a name that is already in the view keeps the
\* versions it has.
MultiVerDepsAddFirst(view, name, version) ==
    IF name \in DOMAIN view THEN view ELSE Put(view, name, {version})

\* MultiVerDeps::add: deps.entry(name).or_default().insert(version)
MultiVerDepsAdd(view, name, version) ==
    Put(view, name, (IF name \in DOMAIN view THEN view[name] ELSE {}) \cup {version})

\* MultiVerParents::add: the view of the parent gets (name, ver).
ParentsAdd(par, parent, name, ver) ==
    Put(par, parent,
        MultiVerDepsAdd(IF parent \in DOMAIN par THEN par[parent] ELSE <<>>, name, ver))

\* Mutant of MultiVerIter: the filter on the number of versions is dropped.
MultiVerIterUnfiltered(view) == DOMAIN view

\* MultiVerDeps::multi_ver_iter: the names with more than one version.
MultiVerIter(view) == {n \in DOMAIN view : Cardinality(view[n]) > 1}

\* Mutant of HasAll: an overlap is taken for a superset.
HasSome(view, name, versions) ==
    IF name \in DOMAIN view THEN versions \cap view[name] # {} ELSE FALSE

\* MultiVerDeps::has_all
HasAll(view, name, versions) ==
    IF name \in DOMAIN view THEN versions \subseteq view[name] ELSE FALSE

\* An activation of next(): the package it visits, its caller's package, the
\* direct_tl_dep_pkg argument and the index of the dependent its loop is at.
Frame(curr, prev, dtl) == [curr |-> curr, prev |-> prev, dtl |-> dtl, idx |-> 1]

\* The walk cannot go deeper than this without being on a cycle.
MaxDepth == Cardinality(Package) + 1

\* Returns of the activations whose loop over the dependents is finished.
RECURSIVE Unwind(_, _)
Unwind(g, st) ==
    IF st = <<>> THEN st
    ELSE LET top == st[Len(st)]
         IN IF top.idx > Len(g[top.curr].dependents)
            THEN Unwind(g, SubSeq(st, 1, Len(st) - 1))
            ELSE st

\* Mutant of Descend: a dependent the walk has already visited is skipped, as
\* with a visited set.
DescendUnlessVisited(st, frame) ==
    IF frame.curr \in DOMAIN visits
    THEN [st EXCEPT ![Len(st)].idx = @ + 1]
    ELSE Append([st EXCEPT ![Len(st)].idx = @ + 1], frame)

\* The stack after the innermost activation calls next() on its next dependent.
Descend(st, frame) ==
    Append([st EXCEPT ![Len(st)].idx = @ + 1], frame)

\* Mutant of NextDependent: next() is called on the package of the activation
\* itself.
NextDependentSelf(g, st) == st[Len(st)].curr

\* The dependent the innermost activation visits next.
NextDependent(g, st) == g[st[Len(st)].curr].dependents[st[Len(st)].idx]

\* How many activations of next() the walk has made for pkg.
VisitCount(vis, pkg) == IF pkg \in DOMAIN vis THEN vis[pkg] ELSE 0

\* The activations counted once the stack went from before to called: the
\* activation on top of called is new when called is the longer stack.
VisitsAfter(vis, before, called) ==
    IF Len(called) > Len(before)
    THEN LET pkg == called[Len(called)].curr
         IN Put(vis, pkg, VisitCount(vis, pkg) + 1)
    ELSE vis

\* ------------------------------------------------- results.rs, blame.rs

\* Ord for Package: by name, then by version.
PackageLess(a, b) == a[1] < b[1] \/ (a[1] = b[1] /\ a[2] < b[2])

\* The keys of a blame partition.
BlameKeys(blame) == {blame[i].pkg : i \in 1..Len(blame)}

\* ParentMultiVerBlame::contains
Contains(blame, pkg) == pkg \in BlameKeys(blame)

\* ParentMultiVerBlame::insert (IndexMap::insert): a new key goes last, an
\* existing key keeps its place and gets the new value.
Insert(blame, pkg, entry) ==
    LET e == [pkg |-> pkg, direct |-> entry.direct, indirect |-> entry.indirect]
    IN IF Contains(blame, pkg)
       THEN [i \in 1..Len(blame) |-> IF blame[i].pkg = pkg THEN e ELSE blame[i]]
       ELSE Append(blame, e)

\* One pass of insertion: x is put before the first entry it precedes.
RECURSIVE SortedInsert(_, _)
SortedInsert(sorted, x) ==
    IF sorted = <<>> THEN <<x>>
    ELSE IF PackageLess(x.pkg, Head(sorted).pkg) THEN <<x>> \o sorted
    ELSE <<Head(sorted)>> \o SortedInsert(Tail(sorted), x)

\* Mutant of Sort: the partition is left in the order of its insertions.
SortSkipped(blame) == blame

\* ParentMultiVerBlame::sort (sort_unstable_keys on unique keys).
RECURSIVE Sort(_)
Sort(blame) ==
    IF blame = <<>> THEN <<>>
    ELSE SortedInsert(Sort(SubSeq(blame, 1, Len(blame) - 1)), blame[Len(blame)])

\* ParentBlameEntry::has_direct_blame and has_indirect_blame
HasDirectBlame(entry) == entry.direct # {}

HasIndirectBlame(entry) == entry.indirect # {}

\* The entries (by position) the filter of direct_count keeps.
DirectCounted(blame) ==
    {i \in 1..Len(blame) : HasDirectBlame(blame[i]) /\ ~HasIndirectBlame(blame[i])}

\* The entries the filter of indirect_count keeps.
IndirectCounted(blame) ==
    {i \in 1..Len(blame) : HasIndirectBlame(blame[i]) /\ ~HasDirectBlame(blame[i])}

\* The entries the filter of both_count keeps.
BothCounted(blame) ==
    {i \in 1..Len(blame) : HasDirectBlame(blame[i]) /\ HasIndirectBlame(blame[i])}

\* Mutant of Counted: the entries with indirect blame alone are forgotten.
CountedDirectOnly(blame) ==
    {i \in 1..Len(blame) : HasDirectBlame(blame[i])}

\* The entries the filter of count keeps.
Counted(blame) ==
    {i \in 1..Len(blame) : HasDirectBlame(blame[i]) \/ HasIndirectBlame(blame[i])}

\* ParentMultiVerBlame::direct_count, indirect_count, both_count and count
DirectCount(blame) == Cardinality(DirectCounted(blame))

IndirectCount(blame) == Cardinality(IndirectCounted(blame))

BothCount(blame) == Cardinality(BothCounted(blame))

Count(blame) == Cardinality(Counted(blame))

\* Mutant of AnyHasAll: any dependency with a view counts, whatever the view
\* holds.
AnyHasView(g, par, curr, name, versions) ==
    \E dep \in g[curr].dependencies : dep \in DOMAIN par

\* "Find out if any of our dependencies have all the versions": some direct
\* dependency has a view and its view holds every version of the name.
AnyHasAll(g, par, curr, name, versions) ==
    \E dep \in g[curr].dependencies :
        dep \in DOMAIN par /\ HasAll(par[dep], name, versions)

\* Mutant of BlameEntry: only the name of the duplicate whose walk is in
\* progress is classified, so the entry depends on which walk comes first.
BlameEntryOfRoot(g, par, curr) ==
    LET name == IF root = NoPkg THEN curr[1] ELSE root[1]
    IN [direct   |-> {n \in MultiVerIter(par[curr]) \cap {name} :
                         ~AnyHasAll(g, par, curr, n, par[curr][n])},
        indirect |-> {n \in MultiVerIter(par[curr]) \cap {name} :
                         AnyHasAll(g, par, curr, n, par[curr][n])}]

\* The ParentBlameEntry next() builds for curr_pkg from its view: add_indirect
\* when one dependency has all the versions, add_direct otherwise.
BlameEntry(g, par, curr) ==
    [direct   |-> {n \in MultiVerIter(par[curr]) :
                      ~AnyHasAll(g, par, curr, n, par[curr][n])},
     indirect |-> {n \in MultiVerIter(par[curr]) :
                      AnyHasAll(g, par, curr, n, par[curr][n])}]

\* Mutant of Processed: the partitions are never looked up, every visit
\* counts as the first.
ProcessedNever(g, tlb, db, curr) == FALSE

\* MultiVerDepBlameVer::build of blame.rs: the dependencies of curr recorded
\* as causes of its direct blame for name, those with a view of name that is
\* not equal to the versions curr sees.
BlameVerBuild(g, par, curr, name, versions) ==
    {dep \in g[curr].dependencies :
        /\ dep \in DOMAIN par
        /\ name \in DOMAIN par[dep]
        /\ par[dep][name] # versions}

\* MultiVerDepBlameEntry::build of blame.rs: a name with recorded causes is
\* direct, a name without any is indirect.
BlameEntryBuild(g, par, curr) ==
    IF curr \in DOMAIN par
    THEN [direct   |-> {n \in MultiVerIter(par[curr]) :
                          BlameVerBuild(g, par, curr, n, par[curr][n]) # {}},
          indirect |-> {n \in MultiVerIter(par[curr]) :
                          BlameVerBuild(g, par, curr, n, par[curr][n]) = {}}]
    ELSE [direct |-> {}, indirect |-> {}]

\* The partition next() reads and writes for curr_pkg.
Processed(g, tlb, db, curr) ==
    IF IsTopLevel(g, curr) THEN Contains(tlb, curr) ELSE Contains(db, curr)

\* Mutant of Blames: no entry is inserted once the path of the walk in progress
\* holds a top-level package.
BlamesBelowTopLevel(g, par, tlb, db, curr, bmode) ==
    /\ bmode /\ ~Processed(g, tlb, db, curr) /\ curr \in DOMAIN par
    /\ ~\E i \in 1..Len(stack) : IsTopLevel(g, stack[i].curr)

\* The blame half of next(): whether an entry is inserted for curr_pkg.
Blames(g, par, tlb, db, curr, bmode) ==
    bmode /\ ~Processed(g, tlb, db, curr) /\ curr \in DOMAIN par

\* top_level_blame after next() visited curr_pkg.
TopLevelBlameAfter(g, par, tlb, db, curr, bmode) ==
    IF Blames(g, par, tlb, db, curr, bmode) /\ IsTopLevel(g, curr)
    THEN Insert(tlb, curr, BlameEntry(g, par, curr))
    ELSE tlb

\* Mutant of DepBlameAfter: the entry goes to dep_blame whatever is_top_level.
DepBlameAfterAlways(g, par, tlb, db, curr, bmode) ==
    IF Blames(g, par, tlb, db, curr, bmode)
    THEN Insert(db, curr, BlameEntry(g, par, curr))
    ELSE db

\* dep_blame after next() visited curr_pkg.
DepBlameAfter(g, par, tlb, db, curr, bmode) ==
    IF Blames(g, par, tlb, db, curr, bmode) /\ ~IsTopLevel(g, curr)
    THEN Insert(db, curr, BlameEntry(g, par, curr))
    ELSE db

\* Mutant of PathToStore: the level between the direct dependent and the top
\* level package is never built.
PathToStoreNoMiddle(curr, prev, dtl) ==
    IF Len(dtl) = 1
    THEN IF dtl[1] # curr THEN <<dtl[1], curr>> ELSE <<curr>>
    ELSE IF Len(dtl) = 0 THEN <<curr>>
    ELSE <<>>

\* Option<(&Package, Option<(&Package, Option<&Package>)>)> is the sequence
\* of its packages: <<>> is None, <<d>> is Some((d, None)), and so on.
\* The match on direct_tl_dep_pkg: the hierarchy to store for a top-level
\* curr_pkg, <<>> when nothing is stored.
PathToStore(curr, prev, dtl) ==
    IF Len(dtl) = 1
    THEN IF dtl[1] # curr
         THEN IF dtl[1] # prev
              THEN <<dtl[1], prev, curr>>
              ELSE <<dtl[1], curr>>
         ELSE <<curr>>
    ELSE IF Len(dtl) = 0 THEN <<curr>>
    ELSE <<>>

\* "store one level at a time": the nested maps get the path and its prefixes.
Store(paths, path) ==
    paths \cup {SubSeq(path, 1, k) : k \in 1..Len(path)}

\* Mutant of DtParentsAfter: the summary is stored inside the branch of the
\* blame mode.
DtParentsAfterInBlame(g, dtp, r, curr, prev, dtl, dmode) ==
    IF IsTopLevel(g, curr) /\ dmode /\ blame_mode
    THEN [dtp EXCEPT ![r] = Store(@, PathToStore(curr, prev, dtl))]
    ELSE dtp

\* dt_parents of the walk's root after next() visited curr_pkg.
DtParentsAfter(g, dtp, r, curr, prev, dtl, dmode) ==
    IF IsTopLevel(g, curr) /\ dmode
    THEN [dtp EXCEPT ![r] = Store(@, PathToStore(curr, prev, dtl))]
    ELSE dtp

\* Mutant of OrDependent: the direct dependent is overwritten at every level.
OrDependentLatest(dtl, dependent) == <<dependent>>

\* direct_tl_dep_pkg.or(Some((dependent_pkg, None)))
OrDependent(dtl, dependent) == IF dtl = <<>> THEN <<dependent>> ELSE dtl

Init ==
    /\ deps = <<>>
    /\ records = {}
    /\ loaded = 0
    /\ pc = "start"
    /\ dep_mode = FALSE
    /\ blame_mode = FALSE
    /\ multi_ver_deps = <<>>
    /\ parents = <<>>
    /\ todo = {}
    /\ root = NoPkg
    /\ stack = <<>>
    /\ top_level_blame = <<>>
    /\ dep_blame = <<>>
    /\ dt_parents = <<>>
    /\ err = NoErr
    /\ lock_version \in ResolveVersions
    /\ ret = NoCall
    /\ visits = <<>>

\* from_lock_file is entered: the check of the version of the lock file,
\* before the loop over the packages.
CheckVersion ==
    /\ pc = "start"
    /\ IF Supported(lock_version)
       THEN /\ pc' = "load"
            /\ UNCHANGED err
       ELSE /\ pc' = "error"
            /\ err' = UnsupportedInputVersion
    /\ UNCHANGED <<calls, graph, modes, multi_ver_deps, parents, walk, results>>

\* from_lock_file reads the next package record.
ReadPackage ==
    /\ pc = "load"
    /\ loaded < MaxRecords
    /\ \E pkg \in Package, src \in BOOLEAN :
       \E dsrc \in DepLists(pkg) :
          /\ deps' = FromLockFileStep(deps, pkg, src, dsrc)
          /\ records' = records \cup {<<pkg, src>>}
    /\ loaded' = loaded + 1
    /\ UNCHANGED <<calls, pc, modes, multi_ver_deps, parents, walk, results, err>>

\* from_lock_file returns Ok; main builds the multi-version index and, only
\* when a blame mode is set, goes on to MultiVerParents::build.  The
\* dependents mode is read first by MultiVerDepResults::build.
BuildIndex ==
    /\ pc = "load"
    /\ \E b \in BOOLEAN :
          /\ blame_mode' = b
          /\ pc' = IF b THEN "parents" ELSE "results"
    /\ multi_ver_deps' = MultiVerIndex(deps)
    /\ todo' = Roots(MultiVerIndex(deps))
    /\ dt_parents' = [r \in Roots(MultiVerIndex(deps)) |-> {}]
    /\ UNCHANGED <<calls, graph, dep_mode, parents, root, stack, visits, top_level_blame,
                   dep_blame, err>>

\* The indexes a caller can make with MultiVerDep::new(name, versions).
CallerIndexes ==
    UNION {[N -> SUBSET Versions \ {{}}] : N \in SUBSET Names}

\* A caller of the library passes MultiVerParents::build and
\* MultiVerDepResults::build an index it made itself, which need not be the
\* index of the graph.
BuildCallerIndex ==
    /\ pc = "load"
    /\ \E b \in BOOLEAN :
          /\ blame_mode' = b
          /\ pc' = IF b THEN "parents" ELSE "results"
    /\ \E idx \in CallerIndexes :
          /\ multi_ver_deps' = idx
          /\ todo' = Roots(idx)
          /\ dt_parents' = [r \in Roots(idx) |-> {}]
    /\ UNCHANGED <<calls, graph, dep_mode, parents, root, stack, visits, top_level_blame,
                   dep_blame, err>>

\* MultiVerParents::build takes the next (name, version) and calls
\* next(pkg, pkg): nothing is added for the start itself.
ParentsRoot ==
    /\ pc = "parents"
    /\ root = NoPkg
    /\ \E pkg \in todo :
          /\ todo' = todo \ {pkg}
          /\ IF GetVersionOk(deps, pkg)
             THEN /\ LET st == Unwind(deps, <<Frame(pkg, pkg, <<>>)>>)
                     IN /\ stack' = st
                        /\ root' = IF st = <<>> THEN NoPkg ELSE pkg
                  /\ visits' = VisitsAfter(<<>>, <<>>, <<Frame(pkg, pkg, <<>>)>>)
                  /\ UNCHANGED <<pc, err>>
             ELSE /\ pc' = Propagate(deps, pkg, pc)
                  /\ err' = GetVersionErr(deps, pkg)
                  /\ UNCHANGED <<root, stack, visits>>
    /\ UNCHANGED <<calls, graph, modes, multi_ver_deps, parents, results>>

\* build_multi_ver_parents::next on the next dependent: get_version, add the
\* root to the dependent's view, then the loop over its dependents.
ParentsNext ==
    /\ pc = "parents"
    /\ root # NoPkg
    /\ Len(stack) < MaxDepth
    /\ LET curr == NextDependent(deps, stack)
       IN IF GetVersionOk(deps, curr)
          THEN /\ parents' = IF root # curr
                             THEN ParentsAdd(parents, curr, root[1], root[2])
                             ELSE parents
               /\ LET called == Descend(stack, Frame(curr, curr, <<>>))
                      st == Unwind(deps, called)
                  IN /\ stack' = st
                     /\ root' = IF st = <<>> THEN NoPkg ELSE root
                     /\ visits' = VisitsAfter(visits, stack, called)
               /\ UNCHANGED <<pc, err>>
          ELSE /\ pc' = Propagate(deps, curr, pc)
               /\ err' = GetVersionErr(deps, curr)
               /\ UNCHANGED <<parents, root, stack, visits>>
    /\ UNCHANGED <<calls, graph, modes, multi_ver_deps, todo, results>>

\* MultiVerParents::build returns Ok(multi_ver_parents).
ParentsDone ==
    /\ pc = "parents"
    /\ root = NoPkg
    /\ todo = {}
    /\ pc' = "results"
    /\ todo' = Roots(multi_ver_deps)
    /\ visits' = <<>>
    /\ UNCHANGED <<calls, graph, modes, multi_ver_deps, parents, root, stack, results, err>>

\* MultiVerDepResults::build is entered with the dependents mode of the
\* command line.
ResultsBuild ==
    /\ pc = "results"
    /\ \E d \in BOOLEAN :
          /\ dep_mode' = d
          /\ pc' = IF d \/ blame_mode THEN "walk" ELSE "sort"
    /\ UNCHANGED <<calls, graph, blame_mode, multi_ver_deps, parents, walk, results, err>>

\* MultiVerDepResults::build takes the next (name, version) and calls
\* next(pkg, pkg, None).
ResultsRoot ==
    /\ pc = "walk"
    /\ root = NoPkg
    /\ \E pkg \in todo :
          /\ todo' = todo \ {pkg}
          /\ IF GetVersionOk(deps, pkg)
             THEN /\ top_level_blame' = TopLevelBlameAfter(deps, parents,
                        top_level_blame, dep_blame, pkg, blame_mode)
                  /\ dep_blame' = DepBlameAfter(deps, parents,
                        top_level_blame, dep_blame, pkg, blame_mode)
                  /\ dt_parents' = DtParentsAfter(deps, dt_parents, pkg,
                        pkg, pkg, <<>>, dep_mode)
                  /\ LET st == Unwind(deps, <<Frame(pkg, pkg, <<>>)>>)
                     IN /\ stack' = st
                        /\ root' = IF st = <<>> THEN NoPkg ELSE pkg
                  /\ visits' = VisitsAfter(<<>>, <<>>, <<Frame(pkg, pkg, <<>>)>>)
                  /\ UNCHANGED <<pc, err>>
             ELSE /\ pc' = Propagate(deps, pkg, pc)
                  /\ err' = GetVersionErr(deps, pkg)
                  /\ UNCHANGED <<root, stack, visits, results>>
    /\ UNCHANGED <<calls, graph, modes, multi_ver_deps, parents>>

\* process_multi_ver_dep::next on the next dependent: get_version, the blame
\* entry, the path summary, then the loop over its dependents.
ResultsNext ==
    /\ pc = "walk"
    /\ root # NoPkg
    /\ Len(stack) < MaxDepth
    /\ LET top  == stack[Len(stack)]
           curr == NextDependent(deps, stack)
           dtl  == OrDependent(top.dtl, curr)
       IN IF GetVersionOk(deps, curr)
          THEN /\ top_level_blame' = TopLevelBlameAfter(deps, parents,
                     top_level_blame, dep_blame, curr, blame_mode)
               /\ dep_blame' = DepBlameAfter(deps, parents,
                     top_level_blame, dep_blame, curr, blame_mode)
               /\ dt_parents' = DtParentsAfter(deps, dt_parents, root,
                     curr, top.curr, dtl, dep_mode)
               /\ LET called == Descend(stack, Frame(curr, top.curr, dtl))
                      st == Unwind(deps, called)
                  IN /\ stack' = st
                     /\ root' = IF st = <<>> THEN NoPkg ELSE root
                     /\ visits' = VisitsAfter(visits, stack, called)
               /\ UNCHANGED <<pc, err>>
          ELSE /\ pc' = Propagate(deps, curr, pc)
               /\ err' = GetVersionErr(deps, curr)
               /\ UNCHANGED <<root, stack, visits, results>>
    /\ UNCHANGED <<calls, graph, modes, multi_ver_deps, parents, todo>>

\* The loop over the duplicates is over: both partitions are sorted.
WalksDone ==
    /\ pc = "walk"
    /\ root = NoPkg
    /\ todo = {}
    /\ top_level_blame' = Sort(top_level_blame)
    /\ dep_blame' = Sort(dep_blame)
    /\ pc' = "sort"
    /\ visits' = <<>>
    /\ UNCHANGED <<calls, graph, modes, multi_ver_deps, parents, todo, root, stack,
                   dt_parents, err>>

\* multi_ver_deps.sort() and Ok(Self { .. }).
ResultsDone ==
    /\ pc = "sort"
    /\ pc' = "done"
    /\ UNCHANGED <<calls, graph, modes, multi_ver_deps, parents, walk, results, err>>

Next ==
    \/ CheckVersion
    \/ ReadPackage
    \/ BuildIndex
    \/ ParentsRoot
    \/ ParentsNext
    \/ ParentsDone
    \/ ResultsBuild
    \/ ResultsRoot
    \/ ResultsNext
    \/ WalksDone
    \/ ResultsDone

Spec == Init /\ [][Next]_vars

\* The dependency lists of a lock file whose packages all come from a
\* registry: every reference carries its source.
RegistryLists(pkg) == {dsrc \in DepLists(pkg) : \A d \in DOMAIN dsrc : dsrc[d]}

\* from_lock_file reads the next package record of such a lock file.
ReadRegistryPackage ==
    /\ pc = "load"
    /\ loaded < MaxRecords
    /\ \E pkg \in Package :
       \E dsrc \in RegistryLists(pkg) :
          /\ deps' = FromLockFileStep(deps, pkg, TRUE, dsrc)
          /\ records' = records \cup {<<pkg, TRUE>>}
    /\ loaded' = loaded + 1
    /\ UNCHANGED <<calls, pc, modes, multi_ver_deps, parents, walk, results, err>>

NextRegistry ==
    \/ CheckVersion
    \/ ReadRegistryPackage
    \/ BuildIndex
    \/ ParentsRoot
    \/ ParentsNext
    \/ ParentsDone
    \/ ResultsBuild
    \/ ResultsRoot
    \/ ResultsNext
    \/ WalksDone
    \/ ResultsDone

\* The analysis of the registry lock files.  The program is sequential and
\* waits for nothing: whenever it has a next step it takes it.
SpecFair == Init /\ [][NextRegistry]_vars /\ WF_vars(NextRegistry)

\* A caller looks a package up in the graph from_lock_file built from the
\* records read so far.
GetVersionCall ==
    /\ pc = "load"
    /\ \E pkg \in Package :
          ret' = [pkg |-> pkg, res |-> GetVersion(deps, pkg)]
    /\ pc' = "called"
    /\ UNCHANGED <<lock_version, graph, modes, multi_ver_deps, parents, walk,
                   results, err>>

\* The graphs the library's build functions are given here come from lock
\* files of at most this many package records.
MaxApiRecords == 1

ApiReadPackage == loaded < MaxApiRecords /\ ReadPackage

NextApi ==
    \/ CheckVersion
    \/ ApiReadPackage
    \/ BuildCallerIndex
    \/ ParentsRoot
    \/ ParentsNext
    \/ ParentsDone
    \/ ResultsBuild
    \/ ResultsRoot
    \/ ResultsNext
    \/ WalksDone
    \/ ResultsDone

\* The two build functions called as library functions, with any index.
SpecApi == Init /\ [][NextApi]_vars

\* The lock file of the scenario: the workspace member W depends on A 1 and
\* B, A 1 on C 1, B on A 2 and A 2 on C 2.  W has no source, every other
\* package comes from the registry and is referred to with its source.
PkgA1 == <<1, 1>>
PkgA2 == <<1, 2>>
PkgC1 == <<2, 1>>
PkgC2 == <<2, 2>>
PkgB == <<3, 1>>
PkgW == <<4, 1>>

ScenarioPackages ==
    {[pkg |-> PkgW,  src |-> FALSE, dsrc |-> [d \in {PkgA1, PkgB} |-> TRUE]],
     [pkg |-> PkgA1, src |-> TRUE,  dsrc |-> [d \in {PkgC1} |-> TRUE]],
     [pkg |-> PkgB,  src |-> TRUE,  dsrc |-> [d \in {PkgA2} |-> TRUE]],
     [pkg |-> PkgA2, src |-> TRUE,  dsrc |-> [d \in {PkgC2} |-> TRUE]],
     [pkg |-> PkgC1, src |-> TRUE,  dsrc |-> <<>>],
     [pkg |-> PkgC2, src |-> TRUE,  dsrc |-> <<>>]}

\* from_lock_file reads the next package record of the lock file; the
\* records come in any order.
ReadLockPackage(lock) ==
    /\ pc = "load"
    /\ \E r \in lock :
          /\ <<r.pkg, r.src>> \notin records
          /\ deps' = FromLockFileStep(deps, r.pkg, r.src, r.dsrc)
          /\ records' = records \cup {<<r.pkg, r.src>>}
    /\ loaded' = loaded + 1
    /\ UNCHANGED <<calls, pc, modes, multi_ver_deps, parents, walk, results, err>>

\* from_lock_file returns once every record of the lock file is read.
LockBuildIndex(lock) ==
    /\ \A r \in lock : <<r.pkg, r.src>> \in records
    /\ BuildIndex

ReadScenarioPackage == ReadLockPackage(ScenarioPackages)

ScenarioBuildIndex == LockBuildIndex(ScenarioPackages)

NextScenario ==
    \/ CheckVersion
    \/ ReadScenarioPackage
    \/ ScenarioBuildIndex
    \/ ParentsRoot
    \/ ParentsNext
    \/ ParentsDone
    \/ ResultsBuild
    \/ ResultsRoot
    \/ ResultsNext
    \/ WalksDone
    \/ ResultsDone

\* The whole analysis on the lock file of the scenario.
SpecScenario == Init /\ [][NextScenario]_vars

\* A lock file whose analysis yields blame entries of every kind: R depends
\* on P and S, P on Q and A 1, Q on C 1, C 2 and A 2, S on A 1.  R is a
\* workspace member, the other packages come from the registry.  Q is direct
\* for C, P direct for A and indirect for C, R indirect for both and S, which
\* sees A 1 alone, is blamed for nothing.
PkgP == <<3, 1>>
PkgQ == <<4, 1>>
PkgR == <<5, 1>>
PkgS == <<6, 1>>

KindsPackages ==
    {[pkg |-> PkgR,  src |-> FALSE, dsrc |-> [d \in {PkgP, PkgS} |-> TRUE]],
     [pkg |-> PkgP,  src |-> TRUE,  dsrc |-> [d \in {PkgQ, PkgA1} |-> TRUE]],
     [pkg |-> PkgQ,  src |-> TRUE,  dsrc |-> [d \in {PkgC1, PkgC2, PkgA2} |-> TRUE]],
     [pkg |-> PkgS,  src |-> TRUE,  dsrc |-> [d \in {PkgA1} |-> TRUE]],
     [pkg |-> PkgA1, src |-> TRUE,  dsrc |-> <<>>],
     [pkg |-> PkgA2, src |-> TRUE,  dsrc |-> <<>>],
     [pkg |-> PkgC1, src |-> TRUE,  dsrc |-> <<>>],
     [pkg |-> PkgC2, src |-> TRUE,  dsrc |-> <<>>]}

ReadKindsPackage == ReadLockPackage(KindsPackages)

KindsBuildIndex == LockBuildIndex(KindsPackages)

NextKinds ==
    \/ CheckVersion
    \/ ReadKindsPackage
    \/ KindsBuildIndex
    \/ ParentsRoot
    \/ ParentsNext
    \/ ParentsDone
    \/ ResultsBuild
    \/ ResultsRoot
    \/ ResultsNext
    \/ WalksDone
    \/ ResultsDone

\* The whole analysis on the lock file with entries of every kind.
SpecKinds == Init /\ [][NextKinds]_vars

\* Lock files of chains: up to MaxChainRecords package records, each with at
\* most one dependency.
MaxChainRecords == 3

ChainLists(pkg) == {dsrc \in DepLists(pkg) : Cardinality(DOMAIN dsrc) <= 1}

\* from_lock_file reads the next package record of a lock file of chains.
ReadChainPackage ==
    /\ pc = "load"
    /\ loaded < MaxChainRecords
    /\ \E pkg \in Package, src \in BOOLEAN :
       \E dsrc \in ChainLists(pkg) :
          /\ deps' = FromLockFileStep(deps, pkg, src, dsrc)
          /\ records' = records \cup {<<pkg, src>>}
    /\ loaded' = loaded + 1
    /\ UNCHANGED <<calls, pc, modes, multi_ver_deps, parents, walk, results, err>>

\* The analysis is run without a blame mode: main skips MultiVerParents::build.
ChainBuildIndex == BuildIndex /\ ~blame_mode'

NextChain ==
    \/ CheckVersion
    \/ ReadChainPackage
    \/ ChainBuildIndex
    \/ ResultsBuild
    \/ ResultsRoot
    \/ ResultsNext
    \/ WalksDone
    \/ ResultsDone

\* The path summaries of the lock files of chains.
SpecChain == Init /\ [][NextChain]_vars

NextGetVersion ==
    \/ CheckVersion
    \/ ReadPackage
    \/ GetVersionCall

\* get_version called with any package on the graphs from_lock_file builds.
SpecGetVersion == Init /\ [][NextGetVersion]_vars

\* ------------------------------------------------------------- properties

\* The packages declared by a package record.
Declared == {r[1] : r \in records}

\* The entries of both blame partitions.
BlameEntries ==
    {top_level_blame[i] : i \in 1..Len(top_level_blame)}
        \cup {dep_blame[i] : i \in 1..Len(dep_blame)}

\* The versions of name n the view of package p holds (none without a view).
ViewOf(p, n) ==
    IF p \in DOMAIN parents /\ n \in DOMAIN parents[p] THEN parents[p][n] ELSE {}

\* MultiVerParents::build has returned.
ParentsBuilt == blame_mode /\ pc \in {"results", "walk", "sort", "done"}

\* The packages reached from the frontier by following step one or more times.
RECURSIVE Closure(_, _, _)
Closure(step(_), frontier, seen) ==
    LET new == UNION {step(q) : q \in frontier} \ seen
    IN IF new = {} THEN seen ELSE Closure(step, new, seen \cup new)

\* The packages p reaches through dependencies edges.
Reachable(g, p) ==
    LET step(q) == IF q \in DOMAIN g THEN g[q].dependencies ELSE {}
    IN Closure(step, {p}, {})

\* The packages that reach p through dependents edges.
Ancestors(g, p) ==
    LET step(q) == IF q \in DOMAIN g THEN SeqToSet(g[q].dependents) ELSE {}
    IN Closure(step, {p}, {})

\* No cycle, whether the edges are read from the dependencies or from the
\* dependents.
Acyclic(g) ==
    LET step(q) == IF q \in DOMAIN g
                   THEN g[q].dependencies
                            \cup {d \in DOMAIN g : q \in SeqToSet(g[d].dependents)}
                   ELSE {}
    IN \A p \in DOMAIN g : p \notin Closure(step, {p}, {})

\* Some direct dependency of p has a view of n that holds all of p's versions.
CoveredByOneChild(p, n) ==
    \E d \in deps[p].dependencies :
        /\ d \in DOMAIN parents
        /\ n \in DOMAIN parents[d]
        /\ parents[p][n] \subseteq parents[d][n]

\* C1: every blame entry lists a name its package sees in two or more versions
\* as indirect exactly when one single direct dependency's view of the name
\* holds all those versions, and as direct otherwise (no child has a view of
\* the name, or each child's view covers only part); when the analysis is
\* done every package with a view has such an entry.
DirectIffNoChildCoversAll ==
    /\ \A e \in BlameEntries :
          /\ e.pkg \in DOMAIN parents
          /\ \A n \in DOMAIN parents[e.pkg] :
                Cardinality(parents[e.pkg][n]) >= 2 =>
                    /\ n \in e.indirect <=> CoveredByOneChild(e.pkg, n)
                    /\ n \in e.direct <=> ~CoveredByOneChild(e.pkg, n)
    /\ (pc = "done" /\ blame_mode) =>
          \A p \in DOMAIN parents : \E e \in BlameEntries : e.pkg = p

\* C1 witness: the analysis is done, one package is indirect for a name one
\* of its dependencies covers, and that dependency, none of whose own
\* dependencies has a view of the name, is direct for it.
IndirectAboveDirectSeen ==
    /\ pc = "done"
    /\ \E e \in BlameEntries : \E n \in e.indirect :
          \E d \in deps[e.pkg].dependencies :
              /\ parents[e.pkg][n] \subseteq ViewOf(d, n)
              /\ \E f \in BlameEntries : f.pkg = d /\ n \in f.direct

\* C2: A is a dependent of B exactly when B is a dependency of A.
EdgeSymmetry ==
    \A a \in DOMAIN deps : \A b \in DOMAIN deps :
        a \in SeqToSet(deps[b].dependents) <=> b \in deps[a].dependencies

\* The view the upward closure gives p, read off the graph alone.
ExpectedView(g, p, n) ==
    {v \in DepVersions(g, n) : p \in Ancestors(g, <<n, v>>)}

\* The names p sees in two or more versions, read off the graph alone.
ExpectedNames(g, p) ==
    {n \in Names : Cardinality(DepVersions(g, n)) >= 2
                   /\ Cardinality(ExpectedView(g, p, n)) >= 2}

ExpectedCovered(g, p, n) ==
    \E d \in g[p].dependencies : ExpectedView(g, p, n) \subseteq ExpectedView(g, d, n)

\* The classification of p as a function of the graph: its partitions and
\* its direct and indirect names.
ExpectedClassification(g, p) ==
    LET seen == \E n \in Names : Cardinality(DepVersions(g, n)) >= 2
                                 /\ ExpectedView(g, p, n) # {}
        top  == g[p].top_level \/ Len(g[p].dependents) = 0
    IN [top_level |-> seen /\ top,
        interior  |-> seen /\ ~top,
        direct    |-> {n \in ExpectedNames(g, p) : ~ExpectedCovered(g, p, n)},
        indirect  |-> {n \in ExpectedNames(g, p) : ExpectedCovered(g, p, n)}]

\* The classification of p the walks produced.
Classification(p) ==
    [top_level |-> Contains(top_level_blame, p),
     interior  |-> Contains(dep_blame, p),
     direct    |-> UNION {e.direct : e \in {x \in BlameEntries : x.pkg = p}},
     indirect  |-> UNION {e.indirect : e \in {x \in BlameEntries : x.pkg = p}}]

\* C3: the roots of both walks are taken in any order, and the partition and
\* the direct and indirect names every package ends with are those the graph
\* alone determines: no order of the roots changes them.
Confluence ==
    (pc = "done" /\ blame_mode) =>
        \A p \in DOMAIN deps : Classification(p) = ExpectedClassification(deps, p)

\* C3 witness: an analysis with four duplicated roots is done and a package
\* reached from several of them has both direct and interior results around.
ConfluenceSeen ==
    /\ pc = "done"
    /\ blame_mode
    /\ Cardinality(Roots(multi_ver_deps)) >= 4
    /\ Len(top_level_blame) + Len(dep_blame) >= 2
    /\ \E e \in BlameEntries : e.direct # {}

\* C4: no package is a key of both blame partitions.
NoPackageInBothPartitions ==
    BlameKeys(top_level_blame) \cap BlameKeys(dep_blame) = {}

\* C4 witness: in the middle of the walks both partitions hold an entry.
BothPartitionsFilled ==
    /\ pc = "walk"
    /\ top_level_blame # <<>>
    /\ dep_blame # <<>>

\* C5: a name is in a direct or indirect set only if the package's view holds
\* two or more versions of it, hence only if the graph holds two or more
\* versions of it.
BlameNeedsTwoVersions ==
    \A e \in BlameEntries : \A n \in e.direct \cup e.indirect :
        /\ Cardinality(ViewOf(e.pkg, n)) >= 2
        /\ Cardinality({p \in DOMAIN deps : p[1] = n}) >= 2

\* C5 witness: a package that sees one version of a duplicated name has an
\* entry without that name, while another entry blames a name.
SingleVersionSeenNotBlamed ==
    /\ \E e \in BlameEntries : \E n \in DOMAIN multi_ver_deps :
          Cardinality(ViewOf(e.pkg, n)) = 1 /\ n \notin e.direct \cup e.indirect
    /\ \E e \in BlameEntries : e.direct \cup e.indirect # {}

\* C6: after MultiVerParents::build on an acyclic graph the view of P for a
\* multi-version name holds exactly the versions whose node is not P and is
\* reachable from P through dependencies, and P has a view exactly when one
\* of these sets is not empty.
ViewIsDownwardClosure ==
    (ParentsBuilt /\ Acyclic(deps)) =>
        \A p \in DOMAIN deps :
            LET below(n) == {v \in multi_ver_deps[n] :
                                <<n, v>> # p /\ <<n, v>> \in Reachable(deps, p)}
            IN /\ \A n \in DOMAIN multi_ver_deps : ViewOf(p, n) = below(n)
               /\ p \in DOMAIN parents <=>
                     \E n \in DOMAIN multi_ver_deps : below(n) # {}

\* C7: the top_level flag of the node of a declared package is true exactly
\* when its record has no source (packages whose records disagree on the
\* source are left out).
OriginMatchesRecord ==
    \A p \in Declared :
        LET flags == {r[2] : r \in {q \in records : q[1] = p}}
        IN Cardinality(flags) = 1 => \A src \in flags : deps[p].top_level = ~src

\* C8: the entries of top_level_blame are those of packages whose top_level
\* flag is set or that have no dependents, the entries of dep_blame those of
\* the other packages, and is_top_level is that condition.
PartitionByTopLevel ==
    /\ \A p \in BlameKeys(top_level_blame) :
          deps[p].top_level \/ Len(deps[p].dependents) = 0
    /\ \A p \in BlameKeys(dep_blame) :
          ~(deps[p].top_level \/ Len(deps[p].dependents) = 0)
    /\ \A p \in DOMAIN deps :
          IsTopLevel(deps, p) <=> (deps[p].top_level \/ Len(deps[p].dependents) = 0)

\* C8 witness: the analysis is done with an entry in each partition, the
\* top-level one of a package without the flag.
EachPartitionHasEntry ==
    /\ pc = "done"
    /\ dep_blame # <<>>
    /\ \E p \in BlameKeys(top_level_blame) : ~deps[p].top_level

\* C9: a name is in the multi-version index exactly when the graph holds two
\* or more version nodes of it, declared or only referenced, and the index
\* lists all the versions of the name in the graph.
IndexIsNamesWithSeveralVersions ==
    pc # "load" =>
        \A n \in Names :
            LET vs == {v \in Versions : <<n, v>> \in DOMAIN deps}
            IN /\ n \in DOMAIN multi_ver_deps <=> Cardinality(vs) >= 2
               /\ n \in DOMAIN multi_ver_deps => multi_ver_deps[n] = vs

\* C9 witness: the index holds a name one of whose versions no record
\* declares, and leaves out a name of which the graph holds one version.
IndexHasReferencedOnlyVersion ==
    /\ pc # "load"
    /\ \E n \in DOMAIN multi_ver_deps : \E v \in multi_ver_deps[n] :
          <<n, v>> \notin Declared
    /\ \E p \in DOMAIN deps : p[1] \notin DOMAIN multi_ver_deps

\* C10: when a record lists a dependency no record declares, the analysis
\* with its closure and blame walks does not produce a result.
UndeclaredDependencyFails ==
    (blame_mode /\ \E p \in DOMAIN deps : p \notin Declared) => pc # "done"

\* C11: get_version returns the node of a package of the graph, and for a
\* package that is not in the graph an error that names both its name and its
\* version, whether the name is unknown or only the version is.
GetVersionErrNamesPackage ==
    pc = "called" =>
        IF ret.pkg \in DOMAIN deps
        THEN ret.res.ok /\ ret.res.ver = deps[ret.pkg]
        ELSE /\ ~ret.res.ok
             /\ ret.res.err.kind = "corrupted"
             /\ ret.res.err.name = ret.pkg[1]
             /\ ret.res.err.version = ret.pkg[2]

\* C12: with a lock file version other than V3 from_lock_file returns the
\* version error, no package record is processed and no graph exists; with
\* V3 that error is never returned.
UnsupportedVersionRejected ==
    /\ lock_version # "V3" =>
          /\ pc \in {"start", "error"}
          /\ pc = "error" => err = UnsupportedInputVersion
          /\ loaded = 0 /\ records = {} /\ deps = <<>>
    /\ lock_version = "V3" => err.kind # "version"

\* C12 witness: from_lock_file has returned the version error for a lock file
\* that is not V3.
UnsupportedVersionSeen ==
    /\ pc = "error"
    /\ lock_version \in {"V1", "V2"}
    /\ err.kind = "version"

\* A get_version of the closure walk or of the blame walk has failed.
LookupFailed == err.kind = "corrupted"

\* C13: when a lookup fails in the closure walk or in the blame and path
\* walk, the program is at the return of that error and takes no further
\* step: no later root is walked and no Results is returned; and the walks
\* go on, or a Results is returned, only while every root taken was found.
LookupFailureAborts ==
    /\ [](/\ LookupFailed => pc = "error"
          /\ pc \in {"parents", "walk"} =>
                \A p \in Roots(multi_ver_deps) \ todo : p \in DOMAIN deps
          /\ (pc \in {"sort", "done"} /\ (dep_mode \/ blame_mode)) =>
                \A p \in Roots(multi_ver_deps) : p \in DOMAIN deps)
    /\ [][~LookupFailed]_vars

\* C13 witness: a lookup of the blame and path walk failed after an earlier
\* walk had stored a path summary and while roots were still to be walked.
FailureAfterPartialResults ==
    /\ pc = "error"
    /\ LookupFailed
    /\ dep_mode
    /\ \E r \in DOMAIN dt_parents : dt_parents[r] # {}
    /\ todo # {}

\* The blame entries of package p.
EntriesOf(p) == {e \in BlameEntries : e.pkg = p}

ScenarioSummaryStartsAtB ==
    (pc = "done" /\ dep_mode) =>
        /\ <<PkgB, PkgW>> \in dt_parents[PkgC2]
        /\ \A path \in dt_parents[PkgC2] : path[1] = PkgB

\* C15 amended: the summary of C 2 has A 2, the direct dependent of C 2, in
\* slot 1, B in slot 2 and W in slot 3, and nothing else.
ScenarioSummaryOfC2 ==
    (pc = "done" /\ dep_mode) =>
        dt_parents[PkgC2] =
            {<<PkgA2>>, <<PkgA2, PkgB>>, <<PkgA2, PkgB, PkgW>>}

\* C15 witness: the walk from C 2 has reached W and stored the summary.
ScenarioSummaryStored ==
    /\ dep_mode
    /\ PkgW \in DOMAIN deps /\ IsTopLevel(deps, PkgW)
    /\ <<PkgA2, PkgB, PkgW>> \in dt_parents[PkgC2]

\* The package at position i of a partition is before the one at i + 1: by
\* name, then by version.
Ascending(blame) ==
    \A i \in 1..(Len(blame) - 1) :
        \/ blame[i].pkg[1] < blame[i + 1].pkg[1]
        \/ /\ blame[i].pkg[1] = blame[i + 1].pkg[1]
           /\ blame[i].pkg[2] < blame[i + 1].pkg[2]

\* C16: after build with a blame mode both partitions list their packages
\* in strictly ascending order, by name then by version, whatever the order
\* of the records and of the walks.
PartitionsSorted ==
    (pc \in {"sort", "done"} /\ blame_mode) =>
        Ascending(top_level_blame) /\ Ascending(dep_blame)

\* C16 witness: the analysis is done and a partition holds several entries.
SeveralEntriesSorted ==
    /\ pc = "done"
    /\ blame_mode
    /\ Len(top_level_blame) >= 2 \/ Len(dep_blame) >= 2

\* C17: in each partition the entries counted by direct_count, by
\* indirect_count and by both_count are pairwise disjoint, count is the sum
\* of the three, and the partition holds count entries plus those whose
\* direct and indirect sets are both empty.
CountsPartition ==
    \A blame \in {top_level_blame, dep_blame} :
        LET none == {i \in 1..Len(blame) :
                        blame[i].direct = {} /\ blame[i].indirect = {}}
        IN /\ DirectCounted(blame) \cap IndirectCounted(blame) = {}
           /\ DirectCounted(blame) \cap BothCounted(blame) = {}
           /\ IndirectCounted(blame) \cap BothCounted(blame) = {}
           /\ Count(blame) =
                 DirectCount(blame) + IndirectCount(blame) + BothCount(blame)
           /\ Len(blame) = Count(blame) + Cardinality(none)

\* C17 witness: the partitions hold an entry of each kind: direct only,
\* indirect only, both and none.
EveryKindCounted ==
    /\ pc = "done"
    /\ DirectCount(dep_blame) >= 1
    /\ BothCount(dep_blame) >= 1
    /\ IndirectCount(top_level_blame) >= 1
    /\ Len(dep_blame) > Count(dep_blame)

\* The upward paths n0 <- n1 <- .. <- nk from the last node of path that end
\* at their first top-level node above n0.
RECURSIVE PathsToTop(_, _)
PathsToTop(g, path) ==
    UNION {IF IsTopLevel(g, d) THEN {Append(path, d)}
           ELSE IF Len(path) > Cardinality(DOMAIN g) THEN {}
           ELSE PathsToTop(g, Append(path, d)) :
              d \in SeqToSet(g[path[Len(path)]].dependents)}

\* What the summary records for such a path: T alone when k = 1, n1 and T
\* when k = 2, n1, n(k-1) and T when k >= 3.
SummaryOf(path) ==
    LET k == Len(path) - 1
    IN IF k = 1 THEN <<path[2]>>
       ELSE IF k = 2 THEN <<path[2], path[3]>>
       ELSE <<path[2], path[k], path[k + 1]>>

\* The path of the walk in progress when it visits its next dependent.
WalkPath ==
    [i \in 1..(Len(stack) + 1) |->
        IF i <= Len(stack) THEN stack[i].curr ELSE NextDependent(deps, stack)]

\* The walk in progress is about to reach the first top-level node of its
\* path.
ReachesFirstTopLevel ==
    /\ pc = "walk" /\ root # NoPkg /\ dep_mode
    /\ Len(stack) < MaxDepth
    /\ IsTopLevel(deps, WalkPath[Len(stack) + 1])
    /\ \A i \in 2..Len(stack) : ~IsTopLevel(deps, stack[i].curr)

\* C20: on an acyclic graph, when the dependents walk is done the summary of
\* every duplicate X holds, for every upward path from X to its first
\* top-level node T, the entry of that path: T alone for k = 1, n1 then T for
\* k = 2, n1 then n(k-1) then T for k >= 3; and the step of the walk that
\* reaches T stores that entry and nothing else.
SummaryPerPath ==
    /\ []((pc = "done" /\ dep_mode /\ Acyclic(deps)) =>
             \A x \in DOMAIN dt_parents :
                 \A path \in PathsToTop(deps, <<x>>) :
                     SummaryOf(path) \in dt_parents[x])
    /\ [][(ReachesFirstTopLevel /\ Acyclic(deps)) =>
             dt_parents'[root] =
                 dt_parents[root] \cup
                     {SubSeq(SummaryOf(WalkPath), 1, n) :
                          n \in 1..Len(SummaryOf(WalkPath))}]_vars

\* C20 witness: the walks are done on a chain X <- n1 <- n2 <- T whose
\* packages are all duplicates: the summaries hold a path of three hops, one
\* of two and one of a single hop.
ChainOfThreeHopsSeen ==
    /\ pc = "done" /\ dep_mode /\ Acyclic(deps)
    /\ \E x \in DOMAIN dt_parents : \E path \in PathsToTop(deps, <<x>>) :
          Len(path) = 4 /\ SummaryOf(path) \in dt_parents[x]
    /\ \E x \in DOMAIN dt_parents : \E path \in PathsToTop(deps, <<x>>) :
          Len(path) = 3 /\ SummaryOf(path) \in dt_parents[x]
    /\ \E x \in DOMAIN dt_parents : \E path \in PathsToTop(deps, <<x>>) :
          Len(path) = 2 /\ SummaryOf(path) \in dt_parents[x]

\* C18: on an acyclic graph, once the walk in progress has reached a
\* top-level node above the duplicate and stored its summary, no step further
\* up that path stores anything in the summaries.
NoStoreAboveTopLevel ==
    [][(/\ pc = "walk" /\ root # NoPkg /\ dep_mode
        /\ Acyclic(deps)
        /\ \E i \in 2..Len(stack) : IsTopLevel(deps, stack[i].curr))
          => dt_parents' = dt_parents]_vars

\* C19: on an acyclic graph every first-level key of the summary of a
\* duplicate X is one of the dependents of X, and never X itself.
SlotOneIsDirectDependent ==
    Acyclic(deps) =>
        \A x \in DOMAIN dt_parents : \A path \in dt_parents[x] :
            /\ path[1] \in SeqToSet(deps[x].dependents)
            /\ path[1] # x

\* The package the step of the blame walk that is being taken visits: the
\* duplicate taken from the list, or the next dependent on the path.
VisitedByStep ==
    IF root = NoPkg
    THEN CHOOSE pkg \in Package : todo \ todo' = {} \/ pkg \in todo \ todo'
    ELSE NextDependent(deps, stack)

\* C21: a step of the walks leaves every entry a partition already holds in
\* its place with its value, and when the package it visits already has an
\* entry in either partition it inserts none: a blame entry is written once.
BlameEntryWrittenOnce ==
    [][(pc = "walk" /\ pc' = "walk") =>
          /\ Len(top_level_blame') >= Len(top_level_blame)
          /\ \A i \in 1..Len(top_level_blame) :
                top_level_blame'[i] = top_level_blame[i]
          /\ Len(dep_blame') >= Len(dep_blame)
          /\ \A i \in 1..Len(dep_blame) : dep_blame'[i] = dep_blame[i]
          /\ VisitedByStep \in BlameKeys(top_level_blame) \cup BlameKeys(dep_blame)
                => ~Blames(deps, parents, top_level_blame, dep_blame,
                           VisitedByStep, blame_mode)]_vars

\* Witness of C21: the walk is about to visit again a package that has an
\* entry, from another path or from another duplicate.
BlamedPackageVisitedAgain ==
    /\ pc = "walk"
    /\ root # NoPkg
    /\ Len(stack) < MaxDepth
    /\ NextDependent(deps, stack) \in
          BlameKeys(top_level_blame) \cup BlameKeys(dep_blame)

\* C22: after the analysis of an acyclic graph with a blame mode, the
\* packages with a blame entry, both partitions together, are exactly the
\* packages with a view entry.
BlameEntriesAreViewEntries ==
    (pc = "done" /\ blame_mode /\ Acyclic(deps)) =>
        BlameKeys(top_level_blame) \cup BlameKeys(dep_blame) = DOMAIN parents

\* Witness of C22: a package that lies above a top-level package with an entry
\* has an entry too.
EntryAboveTopLevelEntry ==
    /\ pc = "done" /\ blame_mode /\ Acyclic(deps)
    /\ \E t \in BlameKeys(top_level_blame) :
          \E p \in Ancestors(deps, t) \ {t} :
              p \in BlameKeys(top_level_blame) \cup BlameKeys(dep_blame)

\* Direct dependency d of a package supplies a version of name n: d is a
\* version of n, or the view of d holds one.
Supplies(d, n) == d[1] = n \/ ViewOf(d, n) # {}

\* C23: on an acyclic graph with symmetric edges, a package classified direct
\* for a name has two or more direct dependencies that each supply a version
\* of the name.
DirectHasTwoSuppliers ==
    (Acyclic(deps) /\ EdgeSymmetry) =>
        \A e \in BlameEntries : \A n \in e.direct :
            \E d1 \in deps[e.pkg].dependencies :
                \E d2 \in deps[e.pkg].dependencies \ {d1} :
                    Supplies(d1, n) /\ Supplies(d2, n)

\* C24: after the analysis, a package classified indirect for a name has a
\* direct dependency whose own blame entry lists the name, as direct or as
\* indirect.
IndirectHasBlamedDependency ==
    pc = "done" =>
        \A e \in BlameEntries : \A n \in e.indirect :
            \E d \in deps[e.pkg].dependencies : \E f \in EntriesOf(d) :
                n \in f.direct \cup f.indirect

\* Witness of C24: the analysis ended with an entry that lists a name as
\* indirect.
IndirectEntryAtEnd ==
    pc = "done" /\ \E e \in BlameEntries : e.indirect # {}

\* The number of distinct paths along dependents edges from x up to p, on an
\* acyclic graph; the path of no edge from x to itself counts.
RECURSIVE PathCount(_, _, _)
RECURSIVE PathCountOver(_, _, _)
PathCount(g, x, p) ==
    IF x = p THEN 1 ELSE PathCountOver(g, g[x].dependents, p)

\* The paths to p that start with an edge to one of the dependents ds.
PathCountOver(g, ds, p) ==
    IF ds = <<>> THEN 0
    ELSE PathCount(g, Head(ds), p) + PathCountOver(g, Tail(ds), p)

\* C25: on an acyclic graph a walk never visits a package more often than
\* there are dependents-paths to it from the duplicate the walk started from,
\* and when the walk returns every package was visited exactly once per path.
VisitsEqualPaths ==
    (Acyclic(deps) /\ pc \in {"parents", "walk"}) =>
        /\ root # NoPkg =>
              \A p \in DOMAIN deps :
                  VisitCount(visits, p) <= PathCount(deps, root, p)
        /\ (root = NoPkg /\ visits # <<>>) =>
              \E x \in DOMAIN visits : \A p \in DOMAIN deps :
                  VisitCount(visits, p) = PathCount(deps, x, p)

\* Witness of C25: a walk returned after it visited a package twice.
AncestorVisitedTwice ==
    /\ Acyclic(deps) /\ pc \in {"parents", "walk"}
    /\ root = NoPkg
    /\ \E p \in DOMAIN visits : visits[p] >= 2

\* C26: on an acyclic graph every walk that was started returns, or ends with
\* the error of a failed lookup, and the analysis as a whole ends with its
\* results or with an error.
AcyclicAnalysisTerminates ==
    /\ (root # NoPkg /\ Acyclic(deps)) ~> (root = NoPkg \/ pc = "error")
    /\ <>(\/ pc \in {"done", "error"}
          \/ pc \notin {"start", "load"} /\ ~Acyclic(deps))

\* Witness of C26: the analysis of an acyclic graph ended after walks that
\* went up from a duplicate to its dependents.
AcyclicAnalysisEnded ==
    /\ pc = "done" /\ Acyclic(deps)
    /\ \E p \in DOMAIN parents : TRUE
    /\ \E x \in DOMAIN dt_parents : dt_parents[x] # {}

\* C27: on an acyclic graph with symmetric edges, MultiVerDepBlameEntry::build
\* of blame.rs gives every package with a view the direct and indirect names
\* that next() of results.rs gives it.
BlameBuildsAgree ==
    (ParentsBuilt /\ Acyclic(deps) /\ EdgeSymmetry) =>
        \A p \in DOMAIN parents :
            BlameEntryBuild(deps, parents, p) = BlameEntry(deps, parents, p)

\* C28: once the closure walks are over on an acyclic graph with symmetric
\* edges, the view of a direct dependency d of p is within the view of p for
\* every name, a d that is itself a version of an indexed name is in the view
\* of p, and d has all of the versions p sees of a name exactly when the two
\* views of the name are equal.
ChildViewWithinParentView ==
    (ParentsBuilt /\ Acyclic(deps) /\ EdgeSymmetry) =>
        \A p \in DOMAIN deps : \A d \in deps[p].dependencies :
            /\ d \in Roots(multi_ver_deps) => d[2] \in ViewOf(p, d[1])
            /\ \A n \in Names :
                  /\ ViewOf(d, n) \subseteq ViewOf(p, n)
                  /\ (p \in DOMAIN parents /\ n \in DOMAIN parents[p]
                          /\ d \in DOMAIN parents) =>
                        (HasAll(parents[d], n, parents[p][n])
                            <=> ViewOf(d, n) = ViewOf(p, n))

\* Witness of C28: a direct dependency whose view of a name holds some of the
\* versions its parent sees, and not all.
ChildViewStrictlyWithin ==
    /\ ParentsBuilt /\ Acyclic(deps) /\ EdgeSymmetry
    /\ \E p \in DOMAIN deps : \E d \in deps[p].dependencies : \E n \in Names :
          ViewOf(d, n) # {} /\ ViewOf(d, n) # ViewOf(p, n)

\* The entries of the packages ps in ascending order of package, each with the
\* classification the graph and the views give it.
RECURSIVE AscendingEntries(_)
AscendingEntries(ps) ==
    IF ps = {} THEN <<>>
    ELSE LET m == CHOOSE p \in ps : \A q \in ps \ {p} : PackageLess(p, q)
             e == BlameEntry(deps, parents, m)
         IN <<[pkg |-> m, direct |-> e.direct, indirect |-> e.indirect]>>
                \o AscendingEntries(ps \ {m})

\* The partition of the top-level packages (top) or of the others, as the
\* graph and the views alone determine it.
ExpectedPartition(top) ==
    AscendingEntries({p \in DOMAIN parents : IsTopLevel(deps, p) = top})

\* The paths that go up from path along dependents edges, path included.
RECURSIVE AllPathsUp(_, _)
AllPathsUp(g, path) ==
    {path} \cup
        (IF Len(path) > Cardinality(DOMAIN g) THEN {}
         ELSE UNION {AllPathsUp(g, Append(path, d)) :
                        d \in SeqToSet(g[path[Len(path)]].dependents)})

\* The summary of duplicate x as the graph alone determines it: one stored
\* path, with its prefixes, for every path from x up to a top-level package.
ExpectedSummaries(g, x) ==
    UNION {Store({}, IF Len(path) = 1 THEN <<x>>
                     ELSE PathToStore(path[Len(path)], path[Len(path) - 1],
                                      <<path[2]>>)) :
              path \in {q \in AllPathsUp(g, <<x>>) : IsTopLevel(g, q[Len(q)])}}

\* C29: at the end of the analysis the partitions are what the graph and the
\* views determine when a blame mode is set, whatever the dependents mode,
\* and empty otherwise; the summaries are what the graph determines when a
\* dependents mode is set, whatever the blame mode, and empty otherwise; the
\* index is the index of the graph in every case, and no walk is made with
\* neither mode set.
ModesDoNotInterfere ==
    /\ pc = "walk" => (blame_mode \/ dep_mode)
    /\ pc = "done" =>
        /\ multi_ver_deps = MultiVerIndex(deps)
        /\ DOMAIN dt_parents = Roots(multi_ver_deps)
        /\ top_level_blame =
              (IF blame_mode THEN ExpectedPartition(TRUE) ELSE <<>>)
        /\ dep_blame = (IF blame_mode THEN ExpectedPartition(FALSE) ELSE <<>>)
        /\ \A x \in DOMAIN dt_parents :
              dt_parents[x] =
                  (IF dep_mode THEN ExpectedSummaries(deps, x) ELSE {})

\* Witness of C29: an analysis with both modes set ended with entries in a
\* partition and paths in a summary.
BothModesProduced ==
    /\ pc = "done" /\ blame_mode /\ dep_mode
    /\ BlameEntries # {}
    /\ \E x \in DOMAIN dt_parents : dt_parents[x] # {}

\* Some package on a cycle of dependents edges is the duplicate r or lies
\* above it.
CycleAbove(g, r) ==
    \E c \in Ancestors(g, r) \cup {r} : c \in Ancestors(g, c)

\* C30: a graph with a cycle is built without error, and when a cycle lies
\* above a duplicate of the index MultiVerParents::build, once called, never
\* returns: no result and no error.
CycleWalkNeverReturns ==
    /\ ~Acyclic(deps) => (err = NoErr /\ pc # "error")
    /\ (/\ blame_mode
        /\ pc \notin {"start", "load"}
        /\ \E r \in Roots(multi_ver_deps) : CycleAbove(deps, r))
          => pc = "parents"

\* Witness of C30: the closure walk is on a cycle above its duplicate, deeper
\* than any path without a repeated package.
WalkDeepInCycle ==
    /\ pc = "parents" /\ err = NoErr
    /\ root # NoPkg /\ CycleAbove(deps, root)
    /\ Len(stack) > Cardinality(DOMAIN deps)

====
